---------------------------- MODULE Spec2Model ----------------------------
(***************************************************************************)
(* State-machine model of server.js: the Express handlers of               *)
(* GET /api/sheet-data and GET /api/top-characters, the shared             *)
(* fetchSheetRows(), and the decorate / sort / slice / strip ranking of    *)
(* the top-characters handler.  Spec runs MaxReqs requests through the     *)
(* handlers, each step one stretch of code between two awaits; SpecRank    *)
(* runs the ranking alone over a larger set of sheets.  fetch and          *)
(* Papa.parse are the environment: every settlement they can produce is a  *)
(* choice of the step that awaits them.                                    *)
(*                                                                         *)
(* Text is modelled as a sequence of one-character strings, so that        *)
(* parseFloat is computed character by character.  A JavaScript number is  *)
(* a record: NaN, +-Infinity, or a finite value counted in units of        *)
(* 10^-FracDigits.  The header names of the sheet are written in ASCII     *)
(* (the module's lexer takes no CJK text); the source's constants are      *)
(* given in the comments.                                                  *)
(***************************************************************************)
EXTENDS Integers, Sequences, FiniteSets, TLC

VARIABLES
    pc,            \* per request: "idle", "fetch", "text", "done"
    endpoint,      \* per request: the route that was hit
    type,          \* per request: req.query.type
    primaryKey,    \* per request: handler-local `let primaryKey`
    secondaryKey,  \* per request: handler-local `let secondaryKey`
    response,      \* per request: what its fetch(CSV_URL) settled with
    parsed,        \* per request: what Papa.parse returned for its CSV text
    fetches,       \* per request: number of fetch(CSV_URL) calls it started
    res,           \* per request: the response that was sent
    records,       \* ranking run: the input rows
    mode,          \* ranking run: the mode
    output,        \* ranking run: the rows handed to res.json
    phase          \* ranking run: "idle" (no run), "input" or "ranked"

vars == <<pc, endpoint, type, primaryKey, secondaryKey, response, parsed,
          fetches, res, records, mode, output, phase>>

httpVars == <<pc, endpoint, type, primaryKey, secondaryKey, response, parsed,
              fetches, res>>
rankVars == <<records, mode, output, phase>>

---------------------------------------------------------------------------
(* Bounds *)

MaxRows == 6       \* longest sheet of a ranking run
MaxReqs == 2       \* requests in flight together
FracDigits == 1    \* fraction digits kept of a finite number

---------------------------------------------------------------------------
(* Program constants *)

MAGIC_KEY    == "magic-attack"      \* '魔法攻擊'
PHYSICAL_KEY == "physical-attack"   \* '物理攻擊'
VALUE_KEY    == "value"             \* '價值'
ID_KEY       == "ID"

TopN == 5                           \* sorted.slice(0, 5)

PRIMARY_ANNOT   == "__primary"
SECONDARY_ANNOT == "__secondary"

ValidTypes == {"magic", "physical", "value"}

---------------------------------------------------------------------------
(* JavaScript numbers *)

NaN    == [kind |-> "NaN"]
Inf(s) == [kind |-> "Infinity", sign |-> s]
Fin(n) == [kind |-> "finite", n |-> n]

IsNaN(x) == x.kind = "NaN"

\* b - a
NumSub(b, a) ==
    IF IsNaN(a) \/ IsNaN(b) THEN NaN
    ELSE IF b.kind = "Infinity" /\ a.kind = "Infinity"
         THEN IF b.sign = a.sign THEN NaN ELSE Inf(b.sign)
    ELSE IF b.kind = "Infinity" THEN b
    ELSE IF a.kind = "Infinity" THEN Inf(0 - a.sign)
    ELSE Fin(b.n - a.n)

\* b !== a
StrictNotEqual(b, a) == IsNaN(a) \/ IsNaN(b) \/ b # a

\* the sign Array.prototype.sort reads off a comparator result (NaN is +0)
SignOf(x) ==
    IF IsNaN(x) THEN 0
    ELSE IF x.kind = "Infinity" THEN x.sign
    ELSE IF x.n < 0 THEN -1 ELSE IF x.n > 0 THEN 1 ELSE 0

\* a >= b
NumGeq(a, b) ==
    /\ ~IsNaN(a) /\ ~IsNaN(b)
    /\ \/ a = b
       \/ a.kind = "Infinity" /\ a.sign = 1
       \/ b.kind = "Infinity" /\ b.sign = -1
       \/ a.kind = "finite" /\ b.kind = "finite" /\ a.n >= b.n

NumGt(a, b) == NumGeq(a, b) /\ a # b

---------------------------------------------------------------------------
(* parseFloat *)

DigitChars == <<"0", "1", "2", "3", "4", "5", "6", "7", "8", "9">>
WhiteSpace == {" ", "\t", "\n", "\r"}
InfinityText == <<"I", "n", "f", "i", "n", "i", "t", "y">>
UndefinedText == <<"u", "n", "d", "e", "f", "i", "n", "e", "d">>

IsDigit(c) == \E d \in 1..Len(DigitChars) : DigitChars[d] = c
DigitVal(c) == (CHOOSE d \in 1..Len(DigitChars) : DigitChars[d] = c) - 1

RECURSIVE Pow10(_)
Pow10(k) == IF k = 0 THEN 1 ELSE 10 * Pow10(k - 1)

Scale == Pow10(FracDigits)

Drop(s, k) == SubSeq(s, k + 1, Len(s))

RECURSIVE TrimStart(_)
TrimStart(s) ==
    IF s # <<>> /\ Head(s) \in WhiteSpace THEN TrimStart(Tail(s)) ELSE s

\* the longest prefix of s made of decimal digits
RECURSIVE DigitPrefix(_)
DigitPrefix(s) ==
    IF s # <<>> /\ IsDigit(Head(s)) THEN <<Head(s)>> \o DigitPrefix(Tail(s)) ELSE <<>>

RECURSIVE DigitsVal(_)
DigitsVal(ds) ==
    IF ds = <<>> THEN 0 ELSE 10 * DigitsVal(SubSeq(ds, 1, Len(ds) - 1)) + DigitVal(ds[Len(ds)])

StartsWith(s, p) == Len(s) >= Len(p) /\ SubSeq(s, 1, Len(p)) = p

\* the fraction digits ds, in units of 10^-FracDigits
FracVal(ds) ==
    LET kept == SubSeq(ds, 1, IF Len(ds) < FracDigits THEN Len(ds) ELSE FracDigits)
    IN  DigitsVal(kept) * Pow10(FracDigits - Len(kept))

\* parseFloat(text): leading white space, a sign, then Infinity or the longest
\* prefix digits[.digits] / .digits; anything else is NaN.  The value is exact
\* to FracDigits fraction digits; an exponent part (1e3) is not read, and no
\* text of the sheets below carries one or more fraction digits than that.
ParseFloat(text) ==
    LET t     == TrimStart(text)
        neg   == t # <<>> /\ Head(t) = "-"
        sgn   == IF neg THEN -1 ELSE 1
        u     == IF t # <<>> /\ Head(t) \in {"-", "+"} THEN Tail(t) ELSE t
        ints  == DigitPrefix(u)
        v     == Drop(u, Len(ints))
        fracs == IF v # <<>> /\ Head(v) = "." THEN DigitPrefix(Tail(v)) ELSE <<>>
    IN  IF StartsWith(u, InfinityText) THEN Inf(sgn)
        ELSE IF ints = <<>> /\ fracs = <<>> THEN NaN
        ELSE Fin(sgn * (DigitsVal(ints) * Scale + FracVal(fracs)))

---------------------------------------------------------------------------
(* Ranking: the body of the top-characters handler after the fetch *)

\* String(row[key]): a column the header does not have reads as undefined
FieldText(row, key) == IF key \in DOMAIN row THEN row[key] ELSE UndefinedText

\* faulty variant: the isNaN guard forgotten
NumOrZeroUnchecked(raw) == raw

\* isNaN(raw) ? 0 : raw
NumOrZero(raw) == IF IsNaN(raw) THEN Fin(0) ELSE raw

primaryVal(row, pk) == NumOrZero(ParseFloat(FieldText(row, pk)))
secondaryVal(row, sk) == NumOrZero(ParseFloat(FieldText(row, sk)))

\* { ...row, __primary: p, __secondary: s }
Decorate(row, p, s) ==
    [f \in DOMAIN row \cup {PRIMARY_ANNOT, SECONDARY_ANNOT} |->
        IF f = PRIMARY_ANNOT THEN p
        ELSE IF f = SECONDARY_ANNOT THEN s
        ELSE row[f]]

mapped(rows, pk, sk) ==
    [i \in 1..Len(rows) |->
        Decorate(rows[i], primaryVal(rows[i], pk), secondaryVal(rows[i], sk))]

\* faulty variant: the comparator without its tie-break
compareFnPrimaryOnly(a, b) == NumSub(b[PRIMARY_ANNOT], a[PRIMARY_ANNOT])

\* (a, b) => b.__primary !== a.__primary ? b.__primary - a.__primary
\*                                       : b.__secondary - a.__secondary
compareFn(a, b) ==
    IF StrictNotEqual(b[PRIMARY_ANNOT], a[PRIMARY_ANNOT])
    THEN NumSub(b[PRIMARY_ANNOT], a[PRIMARY_ANNOT])
    ELSE NumSub(b[SECONDARY_ANNOT], a[SECONDARY_ANNOT])

\* a sorts after b
SortsAfter(a, b) == SignOf(compareFn(a, b)) > 0

\* faulty variant: an unstable sort, x goes before the elements it ties with
RECURSIVE InsertSortedBeforeTies(_, _)
InsertSortedBeforeTies(s, x) ==
    IF s = <<>> \/ SortsAfter(x, s[Len(s)])
    THEN Append(s, x)
    ELSE Append(InsertSortedBeforeTies(SubSeq(s, 1, Len(s) - 1), x), s[Len(s)])

\* Array.prototype.sort is stable: x goes behind every element it does not
\* sort before.
RECURSIVE InsertSorted(_, _)
InsertSorted(s, x) ==
    IF s = <<>> \/ ~SortsAfter(s[Len(s)], x)
    THEN Append(s, x)
    ELSE Append(InsertSorted(SubSeq(s, 1, Len(s) - 1), x), s[Len(s)])

RECURSIVE ArraySort(_)
ArraySort(arr) ==
    IF arr = <<>> THEN <<>>
    ELSE InsertSorted(ArraySort(SubSeq(arr, 1, Len(arr) - 1)), arr[Len(arr)])

sorted(rows, pk, sk) == ArraySort(mapped(rows, pk, sk))

\* faulty variant: slice(1, n)
SliceFrontFromOne(arr, n) == SubSeq(arr, 2, IF Len(arr) < n THEN Len(arr) ELSE n)

\* arr.slice(0, n)
SliceFront(arr, n) == SubSeq(arr, 1, IF Len(arr) < n THEN Len(arr) ELSE n)

\* ({ __primary, __secondary, ...rest }) => rest
StripAnnotations(m) ==
    [f \in DOMAIN m \ {PRIMARY_ANNOT, SECONDARY_ANNOT} |-> m[f]]

top5(rows, pk, sk) ==
    LET s == SliceFront(sorted(rows, pk, sk), TopN)
    IN  [i \in 1..Len(s) |-> StripAnnotations(s[i])]

\* faulty variant: the value mode tie-broken by physical attack
KeysForValueByPhysical(t) ==
    IF t = "magic" THEN <<MAGIC_KEY, VALUE_KEY>>
    ELSE IF t = "physical" THEN <<PHYSICAL_KEY, VALUE_KEY>>
    ELSE <<VALUE_KEY, PHYSICAL_KEY>>

\* the if / else-if / else on type
KeysFor(t) ==
    IF t = "magic" THEN <<MAGIC_KEY, VALUE_KEY>>
    ELSE IF t = "physical" THEN <<PHYSICAL_KEY, VALUE_KEY>>
    ELSE <<VALUE_KEY, MAGIC_KEY>>

---------------------------------------------------------------------------
(* Sheets: what Papa.parse(csvText, {header: true}) can hand back *)

Row(id, p, m, v) ==
    (ID_KEY :> id) @@ (PHYSICAL_KEY :> p) @@ (MAGIC_KEY :> m) @@ (VALUE_KEY :> v)

\* rows of a sheet with the expected header
BasePool ==
    { Row(<<"a">>, <<"1">>, <<"2">>, <<"1">>),
      Row(<<"b">>, <<"1">>, <<"2">>, <<" ", "1", ".", "0">>),
      Row(<<"c">>, <<"-", "1">>, <<"x">>, <<"-">> \o InfinityText),
      Row(<<"d">>, <<>>, <<"-", "1", ".", "5">>, <<"2", "x">>) }

\* more rows of such a sheet, with more of the texts parseFloat tells apart
WidePool ==
    BasePool \cup
    { Row(<<"e">>, <<"1">>, <<"2">>, <<>>),
      Row(<<"f">>, <<"+", "2">>, <<".", "5">>, InfinityText),
      Row(<<"g">>, <<"\t", "3">>, <<"-", "0">>, <<"0", ".", "5">>),
      Row(<<"h">>, <<"a", "b", "c">>, <<"1", ".">>, <<"-", ".", "5", "x">>),
      Row(<<"i">>, <<"-">>, InfinityText, InfinityText) }

\* rows of a sheet whose header has no physical-attack column
NoPhysicalPool ==
    { (ID_KEY :> <<"p">>) @@ (MAGIC_KEY :> <<"1">>) @@ (VALUE_KEY :> <<"2">>),
      (ID_KEY :> <<"q">>) @@ (MAGIC_KEY :> <<"3">>) @@ (VALUE_KEY :> <<"-", "1">>) }

\* rows of a sheet whose header also has a column named __primary
AnnotColumnPool ==
    { Row(<<"y">>, <<"1">>, <<"2">>, <<"3">>) @@ (PRIMARY_ANNOT :> <<"7">>),
      Row(<<"z">>, <<"2">>, <<"1">>, <<"3">>) @@ (PRIMARY_ANNOT :> <<>>) }

SeqsUpTo(S, n) == UNION {[1..k -> S] : k \in 0..n}

\* the sheets of the ranking runs: long ones over few rows, short ones over many
Sheets ==
    SeqsUpTo(BasePool, MaxRows)
    \cup SeqsUpTo(WidePool, MaxRows - 3)
    \cup SeqsUpTo(NoPhysicalPool, MaxRows)
    \cup SeqsUpTo(AnnotColumnPool, MaxRows)

---------------------------------------------------------------------------
(* Requests *)

Reqs == 1..MaxReqs

SHEET_DATA     == "/api/sheet-data"
TOP_CHARACTERS == "/api/top-characters"
Endpoints == {SHEET_DATA, TOP_CHARACTERS}

Absent == "<absent>"                \* no type in the query string
QueryTypes == ValidTypes \cup {"Magic", "", Absent}

NoKey == "<unset>"
NoResponse == [status |-> 0]
Pending == [settled |-> FALSE]

idleHttp ==
    /\ pc = [r \in Reqs |-> "idle"]
    /\ endpoint = [r \in Reqs |-> SHEET_DATA]
    /\ type = [r \in Reqs |-> Absent]
    /\ primaryKey = [r \in Reqs |-> NoKey]
    /\ secondaryKey = [r \in Reqs |-> NoKey]
    /\ response = [r \in Reqs |-> Pending]
    /\ parsed = [r \in Reqs |-> Pending]
    /\ fetches = [r \in Reqs |-> 0]
    /\ res = [r \in Reqs |-> NoResponse]

idleRank ==
    /\ records = <<>>
    /\ mode = "magic"
    /\ output = <<>>
    /\ phase = "idle"

---------------------------------------------------------------------------
(* The ranking run: rows and a validated mode in, rows out *)

RankInit ==
    /\ idleHttp
    /\ records \in Sheets
    /\ mode \in ValidTypes
    /\ output = <<>>
    /\ phase = "input"

Rank ==
    /\ phase = "input"
    /\ output' = top5(records, KeysFor(mode)[1], KeysFor(mode)[2])
    /\ phase' = "ranked"
    /\ UNCHANGED <<records, mode>>
    /\ UNCHANGED httpVars

RankNext == Rank

SpecRank == RankInit /\ [][RankNext]_vars

---------------------------------------------------------------------------
(* The HTTP handlers *)

\* what fetch(CSV_URL) can settle with
HttpStatuses == {200, 404, 503}
FetchSettlements ==
    {[settled |-> TRUE, rejected |-> FALSE, ok |-> st = 200, status |-> st] :
        st \in HttpStatuses}
    \cup {[settled |-> TRUE, rejected |-> TRUE, message |-> "fetch failed"]}

\* sheets served to the handlers
ServedSheets ==
    SeqsUpTo({Row(<<"a">>, <<"1">>, <<"2">>, <<"1">>),
              Row(<<"c">>, <<"-", "1">>, <<"x">>, <<"3">>)}, 2)
    \cup {<<Row(<<"a">>, <<"1">>, <<"2">>, <<"1">>),
            Row(<<"b">>, <<"1">>, <<"2">>, <<"1">>),
            Row(<<"c">>, <<"-", "1">>, <<"x">>, <<"3">>),
            Row(<<"d">>, <<>>, <<"-", "1">>, <<"1", "x">>),
            Row(<<"e">>, <<"1">>, <<"3">>, <<>>),
            Row(<<"f">>, <<"2">>, <<"2">>, <<"2">>)>>}

\* what Papa.parse(csvText, {header: true, skipEmptyLines: true}) can return
ParseResults ==
    {[settled |-> TRUE, rejected |-> FALSE, errors |-> <<>>, data |-> sh] :
        sh \in ServedSheets}
    \cup {[settled |-> TRUE, rejected |-> FALSE, errors |-> <<"Too few fields">>,
           data |-> <<Row(<<"a">>, <<"1">>, <<"2">>, <<"1">>)>>],
          [settled |-> TRUE, rejected |-> FALSE,
           errors |-> <<"Unable to auto-detect delimiting character">>, data |-> <<>>]}

\* faulty variant: a missing type passes the validation
IsValidTypeOrAbsent(t) == t \in ValidTypes \/ t = Absent

\* ['magic', 'physical', 'value'].includes(type)
IsValidType(t) == t \in ValidTypes

\* res.status(400).json({ success: false, message })
BadRequest ==
    [status |-> 400, success |-> FALSE, message |-> "type must be magic, physical or value"]

\* faulty variant: a failure answered as an empty success
ServerErrorAsEmpty(err) == [status |-> 200, success |-> TRUE, rows |-> <<>>]

\* the catch blocks: res.status(500).json({ success: false, message, error: err.message })
ServerError(err) ==
    [status |-> 500, success |-> FALSE, message |-> "server error", error |-> err]

\* res.json({ success: true, rows })
SheetDataOk(rows) == [status |-> 200, success |-> TRUE, rows |-> rows]

\* res.json({ success: true, rows: top5, type, sortFieldPrimary, sortFieldSecondary })
TopCharactersOk(rows, t, pk, sk) ==
    [status |-> 200, success |-> TRUE, rows |-> top5(rows, pk, sk), type |-> t,
     sortFieldPrimary |-> pk, sortFieldSecondary |-> sk]

\* faulty variant: primaryKey / secondaryKey declared at module level, one for all
AssignKeyShared(keys, r, k) == [q \in DOMAIN keys |-> k]

\* the assignments to the handler's own primaryKey / secondaryKey
AssignKey(keys, r, k) == [keys EXCEPT ![r] = k]

\* the handler's code after `await fetchSheetRows()` has returned rows
RespondWith(r, rows) ==
    IF endpoint[r] = SHEET_DATA
    THEN SheetDataOk(rows)
    ELSE TopCharactersOk(rows, type[r], primaryKey[r], secondaryKey[r])

\* a request arrives; the top-characters handler validates type and picks the
\* keys, then either handler calls fetchSheetRows(), which calls fetch(CSV_URL).
\* The sheet-data handler never reads the query, so its type is left absent.
Receive(r) ==
    /\ pc[r] = "idle"
    /\ \E ep \in Endpoints, t \in QueryTypes :
        /\ ep = SHEET_DATA => t = Absent
        /\ endpoint' = [endpoint EXCEPT ![r] = ep]
        /\ type' = [type EXCEPT ![r] = t]
        /\ IF ep = TOP_CHARACTERS /\ ~IsValidType(t)
           THEN /\ res' = [res EXCEPT ![r] = BadRequest]
                /\ pc' = [pc EXCEPT ![r] = "done"]
                /\ UNCHANGED <<primaryKey, secondaryKey, fetches>>
           ELSE /\ primaryKey' = IF ep = TOP_CHARACTERS
                                 THEN AssignKey(primaryKey, r, KeysFor(t)[1])
                                 ELSE primaryKey
                /\ secondaryKey' = IF ep = TOP_CHARACTERS
                                   THEN AssignKey(secondaryKey, r, KeysFor(t)[2])
                                   ELSE secondaryKey
                /\ fetches' = [fetches EXCEPT ![r] = @ + 1]
                /\ pc' = [pc EXCEPT ![r] = "fetch"]
                /\ UNCHANGED res
    /\ UNCHANGED <<response, parsed>>
    /\ UNCHANGED rankVars

\* `await fetch(CSV_URL)` settles: a rejection or a non-OK status throws
FetchSettles(r) ==
    /\ pc[r] = "fetch"
    /\ \E f \in FetchSettlements :
        /\ response' = [response EXCEPT ![r] = f]
        /\ IF f.rejected
           THEN /\ res' = [res EXCEPT ![r] = ServerError(<<f.message>>)]
                /\ pc' = [pc EXCEPT ![r] = "done"]
           ELSE IF ~f.ok
           THEN /\ res' = [res EXCEPT ![r] = ServerError(<<"download failed: HTTP", f.status>>)]
                /\ pc' = [pc EXCEPT ![r] = "done"]
           ELSE /\ pc' = [pc EXCEPT ![r] = "text"]
                /\ UNCHANGED res
    /\ UNCHANGED <<endpoint, type, primaryKey, secondaryKey, parsed, fetches>>
    /\ UNCHANGED rankVars

\* `await response.text()` resolves; Papa.parse runs; errors throw, otherwise
\* the handler answers with the rows
TextResolves(r) ==
    /\ pc[r] = "text"
    /\ \E p \in ParseResults :
        /\ parsed' = [parsed EXCEPT ![r] = p]
        /\ res' = [res EXCEPT ![r] =
                     IF Len(p.errors) # 0
                     THEN ServerError(<<"CSV parse error:", p.errors[1]>>)
                     ELSE RespondWith(r, p.data)]
    /\ pc' = [pc EXCEPT ![r] = "done"]
    /\ UNCHANGED <<endpoint, type, primaryKey, secondaryKey, response, fetches>>
    /\ UNCHANGED rankVars

\* `await response.text()` rejects (the body stream broke)
TextRejects(r) ==
    /\ pc[r] = "text"
    /\ parsed' = [parsed EXCEPT ![r] = [settled |-> TRUE, rejected |-> TRUE]]
    /\ res' = [res EXCEPT ![r] = ServerError(<<"terminated">>)]
    /\ pc' = [pc EXCEPT ![r] = "done"]
    /\ UNCHANGED <<endpoint, type, primaryKey, secondaryKey, response, fetches>>
    /\ UNCHANGED rankVars

Init == idleHttp /\ idleRank

Next ==
    \E r \in Reqs :
        \/ Receive(r)
        \/ FetchSettles(r)
        \/ TextResolves(r)
        \/ TextRejects(r)

Spec == Init /\ [][Next]_vars

---------------------------------------------------------------------------
(* Vocabulary of the properties *)

\* the (primary, secondary) table as the specification states it
TablePrimary(m) ==
    CASE m = "magic" -> MAGIC_KEY [] m = "physical" -> PHYSICAL_KEY [] m = "value" -> VALUE_KEY
TableSecondary(m) ==
    CASE m = "magic" -> VALUE_KEY [] m = "physical" -> VALUE_KEY [] m = "value" -> MAGIC_KEY

\* the field's text does not parse as a number
Unparsable(row, field) == IsNaN(ParseFloat(FieldText(row, field)))

\* the numeric value of a field, an unparsable one taken as 0
ValueOf(row, field) ==
    LET raw == ParseFloat(FieldText(row, field))
    IN  IF IsNaN(raw) THEN Fin(0) ELSE raw

\* the (primary, secondary) values of each row
KeysOf(rows, pf, sf) ==
    [i \in 1..Len(rows) |-> <<ValueOf(rows[i], pf), ValueOf(rows[i], sf)>>]

\* key k is lexicographically strictly greater than key l
KeyGreater(k, l) ==
    \/ NumGt(k[1], l[1])
    \/ k[1] = l[1] /\ NumGt(k[2], l[2])

\* the keys ks are in descending order
Descending(ks) ==
    \A i \in 1..(Len(ks) - 1) :
        /\ NumGeq(ks[i][1], ks[i + 1][1])
        /\ ks[i][1] = ks[i + 1][1] => NumGeq(ks[i][2], ks[i + 1][2])

Occurrences(rows, x) == Cardinality({i \in 1..Len(rows) : rows[i] = x})

\* the positions of ks that hold key k, in order
PositionsOf(ks, k) ==
    LET Holds(j) == ks[j] = k
    IN  SelectSeq([j \in 1..Len(ks) |-> j], Holds)

Min(a, b) == IF a < b THEN a ELSE b

\* the columns of a row other than the two annotation names
Columns(row) == [f \in DOMAIN row \ {PRIMARY_ANNOT, SECONDARY_ANNOT} |-> row[f]]

Ranked == phase = "ranked"
PF == TablePrimary(mode)
SF == TableSecondary(mode)

---------------------------------------------------------------------------
(* Properties of the ranking run (SpecRank) *)

\* C1: in every mode and for every input, each adjacent pair of returned rows
\* is in descending order of the primary value and, when the primary values
\* are equal, of the secondary value (unparsable values counted as 0).
C1_OutputDescending == Ranked => Descending(KeysOf(output, PF, SF))

\* a run where the input was out of order, and the output holds both a step
\* down in the primary value and a primary tie decided by the secondary value
C1_Witness ==
    /\ Ranked
    /\ ~Descending(KeysOf(records, PF, SF))
    /\ LET ks == KeysOf(output, PF, SF)
       IN  /\ \E i \in 1..(Len(ks) - 1) : NumGt(ks[i][1], ks[i + 1][1])
           /\ \E i \in 1..(Len(ks) - 1) :
                 ks[i][1] = ks[i + 1][1] /\ NumGt(ks[i][2], ks[i + 1][2])

\* C2: the output is a prefix of the sorted input: every returned row is one
\* of the input rows (with multiplicity), and no input row that was left out
\* has a key strictly greater than the key of a returned row.
C2_PrefixOfSortedInput ==
    Ranked =>
        LET inK  == KeysOf(records, PF, SF)
            outK == KeysOf(output, PF, SF)
        IN  /\ \A k \in 1..Len(output) :
                  Occurrences(output, output[k]) <= Occurrences(records, output[k])
            /\ \A i \in 1..Len(records) :
                  Occurrences(records, records[i]) > Occurrences(output, records[i])
                     => \A k \in 1..Len(output) : ~KeyGreater(inK[i], outK[k])

\* C3: the number of returned rows is min(5, number of input rows).
C3_OutputLength == Ranked => Len(output) = Min(5, Len(records))

\* a run that truncated: more than five rows in, five rows out
C3_Witness == Ranked /\ Len(records) > 5 /\ Len(output) = 5

\* C5: a row whose primary or secondary field does not parse competes with
\* the value 0 and is never excluded: it is returned whenever fewer than five
\* other rows have a key that is not below its own, and among the returned
\* rows it stands behind every positive and before every negative primary.
C5_UnparsableCompetesAsZero ==
    Ranked =>
        LET inK  == KeysOf(records, PF, SF)
            outP == [k \in 1..Len(output) |-> ParseFloat(FieldText(output[k], PF))]
        IN  /\ \A i \in 1..Len(records) :
                  (/\ Unparsable(records[i], PF) \/ Unparsable(records[i], SF)
                   /\ Cardinality({j \in 1..Len(records) \ {i} :
                         ~KeyGreater(inK[i], inK[j])}) < 5)
                     => \E k \in 1..Len(output) : output[k] = Columns(records[i])
            /\ \A k, l \in 1..Len(output) :
                  (IsNaN(outP[k]) /\ ~IsNaN(outP[l])) =>
                     /\ NumGt(outP[l], Fin(0)) => l < k
                     /\ NumGt(Fin(0), outP[l]) => k < l

\* a returned row with an unparsable primary field, between a positive and a
\* negative one, from an input that began with it and was cut to five
C5_Witness ==
    /\ Ranked
    /\ Len(records) > 5
    /\ Unparsable(records[1], PF)
    /\ \E k \in 2..(Len(output) - 1) :
          /\ Unparsable(output[k], PF)
          /\ NumGt(ValueOf(output[k - 1], PF), Fin(0))
          /\ NumGt(Fin(0), ValueOf(output[k + 1], PF))

\* C7: every returned row is an unmodified copy of an input row: the same
\* field names with the same texts, whatever columns the header defines.
C7_OutputRowsAreInputRows ==
    Ranked => \A k \in 1..Len(output) : \E i \in 1..Len(records) : output[k] = records[i]

\* C10: rows equal on both sort values keep their input order, and when only
\* some rows of such a group fit in the top five, the earliest ones are kept:
\* for every key, the returned rows with that key are, in order, the first
\* input rows with that key.
C10_TiesKeepInputOrder ==
    Ranked =>
        LET inK  == KeysOf(records, PF, SF)
            outK == KeysOf(output, PF, SF)
        IN  \A key \in {inK[i] : i \in 1..Len(inK)} :
                LET ins  == PositionsOf(inK, key)
                    outs == PositionsOf(outK, key)
                IN  /\ Len(outs) <= Len(ins)
                    /\ \A t \in 1..Len(outs) :
                          output[outs[t]] = Columns(records[ins[t]])

\* a group of fully tied rows, not all alike, that began the input, was moved
\* behind another row and was cut by the top five
C10_Witness ==
    /\ Ranked
    /\ LET inK  == KeysOf(records, PF, SF)
           outK == KeysOf(output, PF, SF)
           ins  == PositionsOf(inK, inK[1])
           outs == PositionsOf(outK, inK[1])
       IN  /\ Len(records) > 0
           /\ Len(outs) >= 2
           /\ Len(outs) < Len(ins)
           /\ output[outs[1]] # output[outs[2]]
           /\ outK[1] # inK[1]

---------------------------------------------------------------------------
(* Properties of the handlers (Spec) *)

\* the request's download or its CSV parse failed
Failed(r) ==
    \/ response[r].settled /\ (response[r].rejected \/ ~response[r].ok)
    \/ parsed[r].settled /\ (parsed[r].rejected \/ Len(parsed[r].errors) > 0)

Succeeded(r) == res[r].status = 200

\* C4: the mode fixes the sort fields (magic: magic-attack then value,
\* physical: physical-attack then value, value: value then magic-attack), and
\* a successful top-characters response echoes the requested type and the two
\* field names its rows are sorted by.
C4_ModeFixesFieldsAndEcho ==
    \A r \in Reqs :
        (Succeeded(r) /\ endpoint[r] = TOP_CHARACTERS) =>
            /\ type[r] \in {"magic", "physical", "value"}
            /\ res[r].type = type[r]
            /\ res[r].sortFieldPrimary = TablePrimary(type[r])
            /\ res[r].sortFieldSecondary = TableSecondary(type[r])
            /\ Descending(KeysOf(res[r].rows, res[r].sortFieldPrimary,
                                 res[r].sortFieldSecondary))

\* a value-mode response whose rows came out of order, with a tie on value
\* decided by magic attack
C4_Witness ==
    \E r \in Reqs :
        /\ Succeeded(r) /\ endpoint[r] = TOP_CHARACTERS
        /\ type[r] = "value"
        /\ ~Descending(KeysOf(parsed[r].data, VALUE_KEY, MAGIC_KEY))
        /\ \E i \in 1..(Len(res[r].rows) - 1) :
              /\ ValueOf(res[r].rows[i], VALUE_KEY) = ValueOf(res[r].rows[i + 1], VALUE_KEY)
              /\ NumGt(ValueOf(res[r].rows[i], MAGIC_KEY),
                       ValueOf(res[r].rows[i + 1], MAGIC_KEY))

\* C6: a top-characters request whose type is not magic, physical or value
\* (or is absent) ends at once with HTTP 400 and success = false: no fetch is
\* started, nothing is ranked, no rows are returned.
C6_InvalidTypeRejected ==
    \A r \in Reqs :
        (/\ pc[r] # "idle"
         /\ endpoint[r] = TOP_CHARACTERS
         /\ type[r] \notin {"magic", "physical", "value"}) =>
            /\ pc[r] = "done"
            /\ res[r].status = 400
            /\ res[r].success = FALSE
            /\ "rows" \notin DOMAIN res[r]
            /\ fetches[r] = 0
            /\ ~response[r].settled
            /\ ~parsed[r].settled

\* a request without a type and one with a wrongly cased type, both refused
C6_Witness ==
    \E r, q \in Reqs :
        /\ endpoint[r] = TOP_CHARACTERS /\ type[r] = Absent /\ res[r].status = 400
        /\ endpoint[q] = TOP_CHARACTERS /\ type[q] = "Magic" /\ res[q].status = 400

\* C8: on both data endpoints a failed download (network error or non-OK
\* status) or a CSV parse error ends the request with HTTP 500, success =
\* false, a message and the error text, and no rows; the request called fetch
\* exactly once, and no request ever calls it twice.
C8_FetchFailureIs500 ==
    \A r \in Reqs :
        /\ fetches[r] <= 1
        /\ Failed(r) =>
              /\ pc[r] = "done"
              /\ res[r].status = 500
              /\ res[r].success = FALSE
              /\ {"message", "error"} \subseteq DOMAIN res[r]
              /\ "rows" \notin DOMAIN res[r]
              /\ fetches[r] = 1

\* a sheet-data request that met a parse error and a top-characters request
\* that met a non-OK download
C8_Witness ==
    \E r, q \in Reqs :
        /\ endpoint[r] = SHEET_DATA
        /\ parsed[r].settled /\ ~parsed[r].rejected /\ Len(parsed[r].errors) > 0
        /\ res[r].status = 500
        /\ endpoint[q] = TOP_CHARACTERS
        /\ response[q].settled /\ ~response[q].rejected /\ ~response[q].ok
        /\ res[q].status = 500

\* what a request must answer, from its own type and its own rows alone
OwnAnswer(r) ==
    IF endpoint[r] = SHEET_DATA
    THEN [status |-> 200, success |-> TRUE, rows |-> parsed[r].data]
    ELSE [status |-> 200, success |-> TRUE,
          rows |-> top5(parsed[r].data, TablePrimary(type[r]), TableSecondary(type[r])),
          type |-> type[r],
          sortFieldPrimary |-> TablePrimary(type[r]),
          sortFieldSecondary |-> TableSecondary(type[r])]

\* every request's sort fields and answer follow from its own type and rows
OwnInputsOnly ==
    \A r \in Reqs :
        /\ (endpoint[r] = TOP_CHARACTERS /\ pc[r] \in {"fetch", "text"}) =>
              /\ primaryKey[r] = TablePrimary(type[r])
              /\ secondaryKey[r] = TableSecondary(type[r])
        /\ Succeeded(r) => res[r] = OwnAnswer(r)

\* a step that does not move request r leaves everything of r as it was
OthersUntouched ==
    \A r \in Reqs :
        pc'[r] = pc[r] =>
            /\ endpoint'[r] = endpoint[r] /\ type'[r] = type[r]
            /\ primaryKey'[r] = primaryKey[r] /\ secondaryKey'[r] = secondaryKey[r]
            /\ response'[r] = response[r] /\ parsed'[r] = parsed[r]
            /\ fetches'[r] = fetches[r] /\ res'[r] = res[r]

\* C9: requests interleave at their awaits without coordination: each
\* request's sort fields and response are determined by its own type and the
\* rows of its own fetch, and handling one request changes nothing of another.
C9_RequestsIndependent == []OwnInputsOnly /\ [][OthersUntouched]_vars

\* one request answered while another, of another mode, is still awaiting its
\* CSV text
C9_Witness ==
    \E r, q \in Reqs :
        /\ endpoint[r] = TOP_CHARACTERS /\ endpoint[q] = TOP_CHARACTERS
        /\ type[r] = "magic" /\ type[q] = "value"
        /\ pc[r] = "text"
        /\ Succeeded(q) /\ Len(res[q].rows) >= 2

=============================================================================
